---------------------------- MODULE Spec2Model ----------------------------
(***************************************************************************)
(* A model of the job-search chat front end.                               *)
(*                                                                         *)
(*   - services/api  (src/unnamed/part_000): the fetch wrappers.           *)
(*   - ChatPage      (src/unnamed/part_001): chat turns with optimistic    *)
(*     update and rollback, and the pagination of the job cards.           *)
(*   - JobCard / JobDetailModal (src/frontend/src/components): the modal   *)
(*     state of one job card.                                              *)
(*                                                                         *)
(* A React event handler, with the state updates it batches, is one        *)
(* action.  The part of an async handler that follows an await is a        *)
(* separate action; it reads the variables of the closure that was         *)
(* captured when the handler was called, which the model keeps in the      *)
(* record of the pending call.  Message ids and timestamps (Date.now())    *)
(* and toasts are left out: no modelled code reads them.  The Home button  *)
(* (it unmounts the page) is outside the model: the model follows the      *)
(* page while it is mounted.                                               *)
(***************************************************************************)
EXTENDS Integers, Sequences, FiniteSets, TLC

VARIABLES
    \* props and route of ChatPage
    userEmail, chatId, chats, location,
    \* useState of ChatPage
    currentChat, message, displayedJobs, currentPage, showJobs,
    isLoading, isSending, selectedJobId, actualChatId,
    \* async calls in flight, and the last settled sendMessage promise
    initRun, pending, sendResult,
    \* what the page did to its collaborators: the urls it fetched, and its
    \* calls of the App's updateChat and addChat
    fetchLog, updateChatCalls, addChatCalls,
    \* a call of a wrapper of services/api by any of its callers
    apiCall,
    \* one JobCard: its props, its useState and that of its JobDetailModal,
    \* the last element clicked, the calls of its props' handlers
    cardProps, showDetailModal, showApplyConfirmation,
    modalShowApplyConfirmation, lastClick, handlerCalls

pageVars == <<userEmail, chatId, chats, location, currentChat, message,
              displayedJobs, currentPage, showJobs, isLoading, isSending,
              selectedJobId, actualChatId, initRun, pending, sendResult,
              fetchLog, updateChatCalls, addChatCalls>>

-----------------------------------------------------------------------------
cardVars == <<cardProps, showDetailModal, showApplyConfirmation,
              modalShowApplyConfirmation, lastClick, handlerCalls>>

vars == <<pageVars, apiCall, cardVars>>

-----------------------------------------------------------------------------
(* Bounds of the model *)

\* accepted sends (fetches of /api/sendMessage) in one behaviour
MaxSends == 2
\* length of the longest jobs list a response carries
MaxJobs == 4
\* how many of the suggested messages the user picks from
MaxSuggested == 1
\* calls of the handlers of a job card's props in one behaviour
MaxCalls == 2

-----------------------------------------------------------------------------
(* JavaScript values *)

\* null (of a string-typed state such as selectedJobId, actualChatId)
Null == "<null>"
\* an optional value: {} when undefined, {v} when it is v
Undefined == {}
Some(v) == {v}

Min(a, b) == IF a < b THEN a ELSE b
Max(a, b) == IF a > b THEN a ELSE b

\* Math.ceil(a / b) for a >= 0, b > 0
Ceil(a, b) == (a + b - 1) \div b

\* Array.prototype.slice(start, end) for 0 <= start, end: 0-based, end excluded
Slice(arr, start, end) ==
    LET lo == Min(start, Len(arr))
        hi == Min(end, Len(arr))
    IN  IF lo >= hi THEN <<>> ELSE SubSeq(arr, lo + 1, hi)

\* String.prototype.slice(0, n)
StrSlice0(s, n) == IF Len(s) <= n THEN s ELSE SubSeq(s, 1, n)

Whitespace == {" ", "\t", "\n"}
\* !s.trim()
IsBlank(s) == \A i \in 1..Len(s) : SubSeq(s, i, i) \in Whitespace

\* rec.f || dflt, for an optional string field
OrDefault(rec, f, dflt) ==
    IF f \in DOMAIN rec /\ rec[f] # "" THEN rec[f] ELSE dflt
\* rec.f, for an optional field
Field(rec, f) == IF f \in DOMAIN rec THEN Some(rec[f]) ELSE Undefined

-----------------------------------------------------------------------------
(* The data the backend sends *)

\* The i-th job of the backend's catalogue.  Odd jobs carry every optional
\* field of JobCardData, even jobs none of them.
JobCardData(i) ==
    LET base == [job_id |-> "job-" \o ToString(i),
                 job_title |-> IF i % 2 = 1 THEN "Engineer" ELSE "Designer",
                 employer_name |-> IF i % 3 = 0 THEN "Acme" ELSE "Globex",
                 job_description |-> "desc"]
        opt  == [job_location |-> "Pune",
                 job_salary |-> "10 LPA",
                 job_employment_type |-> "Contract",
                 job_apply_link |-> "https://apply/" \o ToString(i),
                 job_posted_at |-> "today",
                 job_is_remote |-> TRUE,
                 employer_logo |-> "logo.png",
                 job_highlights |-> [Qualifications |-> <<"q">>]]
    IN  IF i % 2 = 1 THEN base @@ opt ELSE base

\* The jobs lists a response may carry: the first n jobs of the catalogue
JobLists == {[i \in 1..n |-> JobCardData(i)] : n \in 0..MaxJobs}

\* The texts the user types into the input field
LongText == "Please find me senior frontend developer positions in Pune"
Texts == {"", "  ", "hi", LongText}

\* The texts of the bot
BotTexts == {"Here you go", "Tell me more"}

Emails == {"", "u@x.io"}

\* The chat the App holds locally when the page opens (prop chats)
CachedChat ==
    [id |-> "c1", title |-> "Cached title",
     messages |-> <<[sender |-> "bot", content |-> "Welcome"]>>]

-----------------------------------------------------------------------------
(* services/api: the fetch wrappers *)

\* What fetch gives back.  net: fetch resolved with a response (FALSE: it
\* rejected, e.g. the network is down); ok: response.ok; json: the body is
\* JSON, so that response.json() resolves, with body.
NoBody == [none |-> TRUE]
NetDown == [net |-> FALSE, ok |-> FALSE, json |-> FALSE, body |-> NoBody]
HttpOk(body) == [net |-> TRUE, ok |-> TRUE, json |-> TRUE, body |-> body]
HttpError(body) == [net |-> TRUE, ok |-> FALSE, json |-> TRUE, body |-> body]
NotJson(ok) == [net |-> TRUE, ok |-> ok, json |-> FALSE, body |-> NoBody]

\* The bodies of error responses: with a detail, with an empty detail, without
ErrorBodies == {[detail |-> "Chat not found"], [detail |-> ""], [error |-> "boom"]}

\* The messages of the errors the platform throws
FetchErrorMessage == "Failed to fetch"
JsonErrorMessage == "Unexpected token < in JSON at position 0"

\* A settled promise
Resolve(value) == [kind |-> "resolve", value |-> value]
Reject(msg) == [kind |-> "reject", message |-> msg]
Unsettled == [kind |-> "none"]

\* The body shared by the seven wrappers, after the fetch was issued:
\*   const response = await fetch(...);
\*   if (!response.ok) { const errorData = await response.json();
\*                       throw new Error(errorData.detail || fallback); }
\*   return response.json();
FetchJson(fallback, resp) ==
    IF ~resp.net THEN Reject(FetchErrorMessage)
    ELSE IF ~resp.ok
         THEN IF ~resp.json THEN Reject(JsonErrorMessage)
              ELSE Reject(OrDefault(resp.body, "detail", fallback))
         ELSE IF ~resp.json THEN Reject(JsonErrorMessage)
              ELSE Resolve(resp.body)

ApiNames == {"uploadResume", "confirmOnboarding", "createChat", "sendMessage",
             "getChatMessages", "getChatHistory", "deleteChatSession"}

\* The fixed text of each wrapper's error
Fallback(fn) ==
    CASE fn = "uploadResume" -> "Failed to upload resume"
      [] fn = "confirmOnboarding" -> "Failed to confirm onboarding details"
      [] fn = "createChat" -> "Failed to create chat"
      [] fn = "sendMessage" -> "Failed to send message"
      [] fn = "getChatMessages" -> "Failed to get chat messages"
      [] fn = "getChatHistory" -> "Failed to get chat history"
      [] fn = "deleteChatSession" -> "Failed to delete chat session"

uploadResume(resp) == FetchJson(Fallback("uploadResume"), resp)
confirmOnboarding(resp) == FetchJson(Fallback("confirmOnboarding"), resp)
createChat(resp) == FetchJson(Fallback("createChat"), resp)
sendMessage(resp) == FetchJson(Fallback("sendMessage"), resp)
getChatMessages(resp) == FetchJson(Fallback("getChatMessages"), resp)
getChatHistory(resp) == FetchJson(Fallback("getChatHistory"), resp)
deleteChatSession(resp) == FetchJson(Fallback("deleteChatSession"), resp)

\* The requests the wrappers issue.  A query string is given as the
\* parameters the server reads from it; JSON.stringify leaves out a
\* selected_job_id that is undefined.
uploadResumeRequest(file) ==
    [url |-> "/api/onboardFileUpload", method |-> "POST", body |-> file]
confirmOnboardingRequest(data) ==
    [url |-> "/api/confirmOnboardingDetails", method |-> "POST", body |-> data]
createChatRequest(email) ==
    [url |-> "/api/createChat", method |-> "POST", body |-> [email |-> email]]
sendMessageRequest(email, cid, msg, jobId) ==
    [url |-> "/api/sendMessage", method |-> "POST",
     body |-> IF jobId = Undefined
              THEN [email |-> email, chat_id |-> cid, message |-> msg]
              ELSE [email |-> email, chat_id |-> cid, message |-> msg,
                    selected_job_id |-> CHOOSE j \in jobId : TRUE]]
getChatMessagesRequest(email, cid) ==
    [url |-> "/api/getChatMessages", method |-> "GET",
     query |-> [email |-> email, chat_id |-> cid]]
getChatHistoryRequest(email) ==
    [url |-> "/api/chatHistoryRequest", method |-> "GET",
     query |-> [email |-> email]]
deleteChatSessionRequest(email, cid) ==
    [url |-> "/api/deleteChatSession", method |-> "POST",
     query |-> [email |-> email, chat_id |-> cid]]

-----------------------------------------------------------------------------
(* ChatPage: constants and derived values *)

SUGGESTED_MESSAGES ==
    << "Show me frontend developer jobs",
       "Find remote positions",
       "What jobs match my skills?",
       "Show senior level positions",
       "Help me improve my resume" >>

jobsPerPage == 3

convertJobCardDataToJob(jobData) ==
    [id |-> jobData.job_id,
     title |-> jobData.job_title,
     company |-> jobData.employer_name,
     role |-> OrDefault(jobData, "job_employment_type", "Full-time"),
     description |-> jobData.job_description,
     location |-> OrDefault(jobData, "job_location", "Not specified"),
     salary |-> OrDefault(jobData, "job_salary", "Not disclosed"),
     applyLink |-> Field(jobData, "job_apply_link"),
     postedAt |-> Field(jobData, "job_posted_at"),
     isRemote |-> Field(jobData, "job_is_remote"),
     employerLogo |-> Field(jobData, "employer_logo"),
     highlights |-> Field(jobData, "job_highlights")]

\* Variant of ConvertJobs: the jobs come out in reverse order
ConvertJobsReversed(jobs) ==
    [i \in 1..Len(jobs) |-> convertJobCardDataToJob(jobs[Len(jobs) + 1 - i])]

\* response.jobs.map(convertJobCardDataToJob)
ConvertJobs(jobs) == [i \in 1..Len(jobs) |-> convertJobCardDataToJob(jobs[i])]

\* Math.ceil(displayedJobs.length / jobsPerPage)
TotalPagesOf(jobs) == Ceil(Len(jobs), jobsPerPage)
totalPages == TotalPagesOf(displayedJobs)

\* Variant of PaginatedJobsOf: the page is taken as 0-based
PaginatedJobsZeroBased(jobs, page) ==
    Slice(jobs, page * jobsPerPage, (page + 1) * jobsPerPage)

\* displayedJobs.slice((currentPage - 1) * jobsPerPage, currentPage * jobsPerPage)
PaginatedJobsOf(jobs, page) ==
    Slice(jobs, (page - 1) * jobsPerPage, page * jobsPerPage)
paginatedJobs == PaginatedJobsOf(displayedJobs, currentPage)

\* "Showing X - Y of N jobs"
ShowingFrom(page) == (page - 1) * jobsPerPage + 1
ShowingTo(jobs, page) == Min(page * jobsPerPage, Len(jobs))

\* The state of currentChat when it is null
NullChat == [id |-> Null, title |-> "", messages |-> <<>>]

-----------------------------------------------------------------------------
(* ChatPage: the initial state and the chat's initialization *)

\* What the backend answers to getChatMessages and createChat
ServerHistories ==
    { <<[sender |-> "bot", message |-> "Welcome"]>>,
      <<[sender |-> "bot", message |-> "Welcome"],
        [sender |-> "user", message |-> "hi"],
        [sender |-> "bot", message |-> "Here you go"]>> }
GetChatMessagesResponses ==
    {HttpOk([messages |-> h, chat_name |-> "Server title"]) : h \in ServerHistories}
        \cup {NetDown, HttpError([detail |-> "Chat not found"])}
CreateChatResponses ==
    {HttpOk([chat_id |-> "c2", chat_name |-> "New Chat",
             initial_message |-> "Welcome"]),
     NetDown, HttpError([error |-> "boom"])}

\* The route /chat/:chatId
ChatRoute(id) == "/chat/" \o id
Mounted == location = ChatRoute(chatId)

\* No initializeChat is running or due
InitIdle == [pc |-> "idle", chatId |-> Null, existingChat |-> NullChat]

\* The sendMessage requests issued so far
SendsIssued == Cardinality({i \in 1..Len(fetchLog) : fetchLog[i] = "/api/sendMessage"})
\* ... and those of them that have settled
SendsSettled == SendsIssued - Len(pending)

\* No wrapper has been called
ApiIdle == [phase |-> "idle"]
\* No job card is mounted
NoCard == [mounted |-> FALSE]

\* The variables of the other components
elsewhere == <<apiCall, cardVars>>

Init ==
    /\ userEmail \in Emails
    /\ chatId \in {"new", "c1", "c9"}
    /\ chats = <<CachedChat>>
    /\ location = ChatRoute(chatId)
    /\ currentChat = NullChat
    /\ message = ""
    /\ displayedJobs = <<>>
    /\ currentPage = 1
    /\ showJobs = FALSE
    /\ isLoading = FALSE
    /\ isSending = FALSE
    /\ selectedJobId = Null
    /\ actualChatId = Null
    /\ initRun = [pc |-> "effect", chatId |-> chatId, existingChat |-> NullChat]
    /\ pending = <<>>
    /\ sendResult = Unsettled
    /\ fetchLog = <<>>
    /\ updateChatCalls = <<>>
    /\ addChatCalls = <<>>
    /\ apiCall = ApiIdle
    /\ cardProps = NoCard
    /\ showDetailModal = FALSE
    /\ showApplyConfirmation = FALSE
    /\ modalShowApplyConfirmation = FALSE
    /\ lastClick = "none"
    /\ handlerCalls = <<>>

\* chats.find((chat) => chat.id === chatId): {} when there is none
FindChat(cs, id) ==
    LET hits == {i \in 1..Len(cs) : cs[i].id = id}
    IN  IF hits = {} THEN Undefined
        ELSE Some(cs[CHOOSE i \in hits : \A j \in hits : i <= j])

\* Variant of MapServerMessages: the newest message comes first
MapServerMessagesReversed(msgs) ==
    [i \in 1..Len(msgs) |-> [sender |-> msgs[Len(msgs) + 1 - i].sender,
                             content |-> msgs[Len(msgs) + 1 - i].message]]

\* chatData.messages.map((msg, index) => ({ sender, content: msg.message, ... }))
MapServerMessages(msgs) ==
    [i \in 1..Len(msgs) |-> [sender |-> msgs[i].sender, content |-> msgs[i].message]]

\* App.addChat, as the chats prop shows it afterwards
AddChat(cs, chat) == <<chat>> \o cs

\* Variant of NoEmail: the check of the email is left out
NoEmailIgnored(email) == FALSE

\* !userEmail
NoEmail(email) == email = ""

\* useEffect(() => { initializeChat() }, [chatId, userEmail]), up to its await
InitializeChat ==
    /\ initRun.pc = "effect"
    /\ Mounted
    /\ UNCHANGED <<userEmail, chatId, chats, message, displayedJobs, currentPage,
                   showJobs, isSending, selectedJobId, pending, sendResult,
                   updateChatCalls, addChatCalls, elsewhere>>
    /\ IF NoEmail(userEmail)
       THEN /\ location' = "/"
            /\ initRun' = InitIdle
            /\ UNCHANGED <<currentChat, isLoading, actualChatId, fetchLog>>
       ELSE /\ isLoading' = TRUE
            /\ UNCHANGED location
            /\ IF chatId \notin {"", "new"}
               THEN LET existingChat == FindChat(chats, chatId)
                        request == getChatMessagesRequest(userEmail, chatId)
                    IN  /\ fetchLog' = Append(fetchLog, request.url)
                        /\ IF existingChat # Undefined
                           THEN /\ currentChat' = CHOOSE c \in existingChat : TRUE
                                /\ actualChatId' = chatId
                                /\ initRun' = [pc |-> "getExisting", chatId |-> chatId,
                                                existingChat |-> CHOOSE c \in existingChat : TRUE]
                           ELSE /\ initRun' = [pc |-> "getMissing", chatId |-> chatId,
                                                existingChat |-> NullChat]
                                /\ UNCHANGED <<currentChat, actualChatId>>
               ELSE /\ fetchLog' = Append(fetchLog, createChatRequest(userEmail).url)
                    /\ initRun' = [pc |-> "createChat", chatId |-> chatId,
                                    existingChat |-> NullChat]
                    /\ UNCHANGED <<currentChat, actualChatId>>

\* initializeChat after await getChatMessages, the chat being in chats
ExistingChatLoaded(resp) ==
    /\ initRun.pc = "getExisting"
    /\ LET chatData == getChatMessages(resp)
       IN  IF chatData.kind = "resolve"
           THEN currentChat' = [initRun.existingChat EXCEPT
                                   !.messages = MapServerMessages(chatData.value.messages),
                                   !.title = chatData.value.chat_name]
           ELSE UNCHANGED currentChat
    /\ isLoading' = FALSE
    /\ initRun' = InitIdle
    /\ UNCHANGED <<userEmail, chatId, chats, location, message, displayedJobs,
                   currentPage, showJobs, isSending, selectedJobId, actualChatId,
                   pending, sendResult, fetchLog, updateChatCalls, addChatCalls,
                   elsewhere>>

\* initializeChat after await getChatMessages, the chat not being in chats
MissingChatLoaded(resp) ==
    /\ initRun.pc = "getMissing"
    /\ LET chatData == getChatMessages(resp)
           newChat == [id |-> initRun.chatId,
                       title |-> chatData.value.chat_name,
                       messages |-> MapServerMessages(chatData.value.messages)]
       IN  IF chatData.kind = "resolve"
           THEN /\ currentChat' = newChat
                /\ actualChatId' = initRun.chatId
                /\ addChatCalls' = Append(addChatCalls, newChat)
                /\ chats' = AddChat(chats, newChat)
                /\ UNCHANGED location
           ELSE /\ location' = "/home"
                /\ UNCHANGED <<currentChat, actualChatId, addChatCalls, chats>>
    /\ isLoading' = FALSE
    /\ initRun' = InitIdle
    /\ UNCHANGED <<userEmail, chatId, message, displayedJobs, currentPage,
                   showJobs, isSending, selectedJobId, pending, sendResult,
                   fetchLog, updateChatCalls, elsewhere>>

\* initializeChat after await createChat; navigate(..., {replace: true})
\* changes chatId, and so the effect is due again
ChatCreated(resp) ==
    /\ initRun.pc = "createChat"
    /\ LET result == createChat(resp)
           newChat == [id |-> result.value.chat_id,
                       title |-> result.value.chat_name,
                       messages |-> <<[sender |-> "bot",
                                       content |-> result.value.initial_message]>>]
       IN  IF result.kind = "resolve"
           THEN /\ currentChat' = newChat
                /\ actualChatId' = result.value.chat_id
                /\ addChatCalls' = Append(addChatCalls, newChat)
                /\ chats' = AddChat(chats, newChat)
                /\ location' = ChatRoute(result.value.chat_id)
                /\ chatId' = result.value.chat_id
                /\ initRun' = [pc |-> "effect", chatId |-> result.value.chat_id,
                                existingChat |-> NullChat]
           ELSE /\ initRun' = InitIdle
                /\ UNCHANGED <<currentChat, actualChatId, addChatCalls, chats,
                               location, chatId>>
    /\ isLoading' = FALSE
    /\ UNCHANGED <<userEmail, message, displayedJobs, currentPage, showJobs,
                   isSending, selectedJobId, pending, sendResult, fetchLog,
                   updateChatCalls, elsewhere>>

-----------------------------------------------------------------------------
(* ChatPage: sending a message *)

\* The page shows its chat and jobs panels: it is mounted, the effect has
\* run, and the "Initializing chat..." screen is not up
Interactive == Mounted /\ initRun.pc # "effect" /\ ~isLoading

\* Variant of ReturnsEarly: the guard forgets isSending
ReturnsEarlyIgnoringSending(messageText, chat, acid, sending) ==
    \/ IsBlank(messageText)
    \/ chat = NullChat
    \/ acid \in {Null, ""}

\* Variant of ReturnsEarly: the guard forgets the text
ReturnsEarlyAcceptingBlank(messageText, chat, acid, sending) ==
    \/ chat = NullChat
    \/ acid \in {Null, ""}
    \/ sending

\* if (!messageText.trim() || !currentChat || !actualChatId || isSending) return;
ReturnsEarly(messageText, chat, acid, sending) ==
    \/ IsBlank(messageText)
    \/ chat = NullChat
    \/ acid \in {Null, ""}
    \/ sending

\* selectedJobId || undefined
JobIdArg(jobId) == IF jobId \in {Null, ""} THEN Undefined ELSE Some(jobId)

UserMessage(text) == [sender |-> "user", content |-> text]
BotMessage(text) == [sender |-> "bot", content |-> text]

\* Variant of UpdatedMessages: the new message is put first
UpdatedMessagesPrepending(chat, messageText) ==
    <<UserMessage(messageText)>> \o chat.messages

\* const updatedMessages = [...currentChat.messages, newUserMessage];
UpdatedMessages(chat, messageText) == Append(chat.messages, UserMessage(messageText))

\* setIsSending(true), first statement after the guard
SendingAfterAccept == TRUE

\* handleSendMessage(text), up to its await; text = "" stands for no argument.
\* It leaves selectedJobId to its caller.
handleSendMessage(text) ==
    LET messageText == IF text # "" THEN text ELSE message
        request == sendMessageRequest(userEmail, actualChatId, messageText,
                                      JobIdArg(selectedJobId))
    IN  IF ReturnsEarly(messageText, currentChat, actualChatId, isSending)
        THEN UNCHANGED <<isSending, message, currentChat, fetchLog, pending>>
        ELSE /\ SendsSettled < MaxSends
             /\ isSending' = SendingAfterAccept
             /\ message' = ""
             /\ currentChat' = [currentChat EXCEPT
                                   !.messages = UpdatedMessages(currentChat, messageText)]
             /\ fetchLog' = Append(fetchLog, request.url)
             /\ pending' = Append(pending,
                    [currentChat |-> currentChat, actualChatId |-> actualChatId,
                     messageText |-> messageText, request |-> request])

sendFrame == <<userEmail, chatId, chats, location, displayedJobs, currentPage,
               showJobs, isLoading, actualChatId, initRun, sendResult,
               updateChatCalls, addChatCalls, elsewhere>>

\* onChange of the input (disabled while sending)
TypeMessage(text) ==
    /\ Interactive
    /\ ~isSending
    /\ message' = text
    /\ UNCHANGED <<isSending, currentChat, fetchLog, pending, selectedJobId>>
    /\ UNCHANGED sendFrame

\* onClick of the send button (disabled while sending or with a blank input)
ClickSend ==
    /\ Interactive
    /\ ~(isSending \/ IsBlank(message))
    /\ handleSendMessage("")
    /\ UNCHANGED selectedJobId
    /\ UNCHANGED sendFrame

\* onKeyPress of the input: e.key === 'Enter' && !isSending && handleSendMessage()
PressEnter ==
    /\ Interactive
    /\ ~isSending
    /\ handleSendMessage("")
    /\ UNCHANGED selectedJobId
    /\ UNCHANGED sendFrame

\* The suggestions are shown
SuggestionsShown ==
    currentChat # NullChat /\ Len(currentChat.messages) <= 2 /\ ~isSending

\* onClick of a suggested message
ClickSuggested(i) ==
    /\ Interactive
    /\ SuggestionsShown
    /\ handleSendMessage(SUGGESTED_MESSAGES[i])
    /\ UNCHANGED selectedJobId
    /\ UNCHANGED sendFrame

\* The jobs panel is shown
JobsShown == showJobs /\ Len(displayedJobs) > 0

ChooseMessage(job) ==
    "I'm interested in the " \o job.title \o " position at " \o job.company
      \o ". Can you tell me more about it and help me prepare for this role?"

\* handleChooseJob(job), called by the Choose button of a card of the page
handleChooseJob(job) ==
    IF currentChat = NullChat
    THEN UNCHANGED <<isSending, message, currentChat, fetchLog, pending, selectedJobId>>
    ELSE /\ selectedJobId' = job.id
         /\ handleSendMessage(ChooseMessage(job))

ClickChoose(k) ==
    /\ Interactive
    /\ JobsShown
    /\ k \in 1..Len(paginatedJobs)
    /\ handleChooseJob(paginatedJobs[k])
    /\ UNCHANGED sendFrame

\* onClick of the x of the selected job indicator: setSelectedJobId(null)
ClearSelectedJob ==
    /\ Interactive
    /\ selectedJobId \notin {Null, ""}
    /\ selectedJobId' = Null
    /\ UNCHANGED <<isSending, message, currentChat, fetchLog, pending>>
    /\ UNCHANGED sendFrame

\* What the backend answers to sendMessage
SendMessageResponses ==
    {HttpOk([message |-> m]) : m \in BotTexts}
        \cup {HttpOk([message |-> "Found jobs", jobs |-> js]) : js \in JobLists}
        \cup {NetDown, NotJson(TRUE), HttpError([detail |-> "Chat not found"])}

\* Variant of MessagesWithBot: built on the messages before the send
MessagesWithBotOnly(updatedMessages, response) ==
    Append(SubSeq(updatedMessages, 1, Len(updatedMessages) - 1),
           BotMessage(response.message))

\* const messagesWithBot = [...updatedMessages, newBotMessage];
MessagesWithBot(updatedMessages, response) ==
    Append(updatedMessages, BotMessage(response.message))

\* Variant of NewTitle: every send names the chat
NewTitleEverySend(chat, messageText) ==
    StrSlice0(messageText, 50) \o (IF Len(messageText) > 50 THEN "..." ELSE "")

\* let newTitle = currentChat.title;
\* if (currentChat.messages.length === 1)
\*   newTitle = messageText.slice(0, 50) + (messageText.length > 50 ? '...' : '');
NewTitle(chat, messageText) ==
    IF Len(chat.messages) = 1
    THEN StrSlice0(messageText, 50) \o (IF Len(messageText) > 50 THEN "..." ELSE "")
    ELSE chat.title

\* Variant of RolledBack: the catch leaves the chat as it is on screen
RolledBackNothing(chat) == currentChat

\* setCurrentChat({ ...currentChat, messages: currentChat.messages }) of the catch
RolledBack(chat) == [chat EXCEPT !.messages = chat.messages]

\* Variant of HasJobs: an empty list counts
HasJobsField(response) == "jobs" \in DOMAIN response

\* response.jobs && response.jobs.length > 0
HasJobs(response) == "jobs" \in DOMAIN response /\ Len(response.jobs) > 0

\* Variant of JobsPanelFor: the selected page is kept
JobsPanelKeepingPage(response, page) ==
    [displayedJobs |-> ConvertJobs(response.jobs), showJobs |-> TRUE, currentPage |-> page]

\* setDisplayedJobs(convertedJobs); setShowJobs(true); setCurrentPage(1);
JobsPanelFor(response, page) ==
    [displayedJobs |-> ConvertJobs(response.jobs), showJobs |-> TRUE, currentPage |-> 1]

\* Variant of SendingAfterSettle: isSending is reset at the end of the try only
SendingAfterSettleInTry(result) == result.kind = "reject"

\* setIsSending(false) of the finally
SendingAfterSettle(result) == FALSE

\* Variant of SelectedJobAfterSuccess: the selection outlives the send
SelectedJobKept(jobId) == jobId

\* setSelectedJobId(null), the last statement of the try
SelectedJobAfterSuccess(jobId) == Null

RemoveAt(seq, i) == SubSeq(seq, 1, i - 1) \o SubSeq(seq, i + 1, Len(seq))

\* handleSendMessage after await sendMessage, for the i-th call in flight:
\* the rest of the try, or the catch, and the finally.  currentChat,
\* actualChatId and messageText are the ones of the call's closure.
SendSettled(i, resp) ==
    /\ Mounted
    /\ i \in 1..Len(pending)
    /\ LET call == pending[i]
           result == sendMessage(resp)
           response == result.value
           updatedMessages == UpdatedMessages(call.currentChat, call.messageText)
           messagesWithBot == MessagesWithBot(updatedMessages, response)
           newTitle == NewTitle(call.currentChat, call.messageText)
           panel == JobsPanelFor(response, currentPage)
       IN  /\ IF result.kind = "resolve"
              THEN /\ currentChat' = [call.currentChat EXCEPT
                                         !.messages = messagesWithBot,
                                         !.title = newTitle]
                   /\ updateChatCalls' = Append(updateChatCalls,
                          [chatId |-> call.actualChatId,
                           messages |-> messagesWithBot,
                           title |-> newTitle])
                   /\ IF HasJobs(response)
                      THEN /\ displayedJobs' = panel.displayedJobs
                           /\ showJobs' = panel.showJobs
                           /\ currentPage' = panel.currentPage
                      ELSE UNCHANGED <<displayedJobs, showJobs, currentPage>>
                   /\ selectedJobId' = SelectedJobAfterSuccess(selectedJobId)
              ELSE /\ currentChat' = RolledBack(call.currentChat)
                   /\ UNCHANGED <<updateChatCalls, displayedJobs, showJobs,
                                  currentPage, selectedJobId>>
           /\ isSending' = SendingAfterSettle(result)
           /\ sendResult' = result
           /\ pending' = RemoveAt(pending, i)
    /\ UNCHANGED <<userEmail, chatId, chats, location, message, isLoading,
                   actualChatId, initRun, fetchLog, addChatCalls, elsewhere>>

-----------------------------------------------------------------------------
(* ChatPage: the pagination controls *)

\* The controls are rendered: the jobs panel is shown and totalPages > 1
PaginationShown == JobsShown /\ totalPages > 1

pageFrame == <<userEmail, chatId, chats, location, currentChat, message,
               displayedJobs, showJobs, isLoading, isSending, selectedJobId,
               actualChatId, initRun, pending, sendResult, fetchLog,
               updateChatCalls, addChatCalls, elsewhere>>

\* setCurrentPage((prev) => Math.max(1, prev - 1)); disabled on page 1
PreviousPage(prev) == Max(1, prev - 1)
ClickPrevious ==
    /\ Interactive
    /\ PaginationShown
    /\ currentPage # 1
    /\ currentPage' = PreviousPage(currentPage)
    /\ UNCHANGED pageFrame

\* setCurrentPage((prev) => Math.min(totalPages, prev + 1)); disabled on the last page
NextPage(prev, total) == Min(total, prev + 1)
ClickNext ==
    /\ Interactive
    /\ PaginationShown
    /\ currentPage # totalPages
    /\ currentPage' = NextPage(currentPage, totalPages)
    /\ UNCHANGED pageFrame

\* Array.from({ length: Math.min(totalPages, 5) }, (_, i) => i + 1)
PageButtons(total) == 1..Min(total, 5)
\* onClick of a page number: setCurrentPage(page)
ClickPage(page) ==
    /\ Interactive
    /\ PaginationShown
    /\ page \in PageButtons(totalPages)
    /\ currentPage' = page
    /\ UNCHANGED pageFrame

-----------------------------------------------------------------------------
(* The page as a state machine *)

Next ==
    \/ InitializeChat
    \/ \E resp \in GetChatMessagesResponses : ExistingChatLoaded(resp)
    \/ \E resp \in GetChatMessagesResponses : MissingChatLoaded(resp)
    \/ \E resp \in CreateChatResponses : ChatCreated(resp)
    \/ \E text \in Texts : TypeMessage(text)
    \/ ClickSend
    \/ PressEnter
    \/ \E i \in 1..Min(MaxSuggested, Len(SUGGESTED_MESSAGES)) : ClickSuggested(i)
    \/ \E k \in 1..jobsPerPage : ClickChoose(k)
    \/ ClearSelectedJob
    \/ \E i \in 1..(MaxSends + 1), resp \in SendMessageResponses : SendSettled(i, resp)
    \/ ClickPrevious
    \/ ClickNext
    \/ \E page \in 1..5 : ClickPage(page)

Spec == Init /\ [][Next]_vars

-----------------------------------------------------------------------------
(* services/api as a state machine: one call of a wrapper at a time *)

\* The request a wrapper issues for its arguments
ApiRequest(fn, email, cid) ==
    CASE fn = "uploadResume" -> uploadResumeRequest("resume.pdf")
      [] fn = "confirmOnboarding" -> confirmOnboardingRequest([email |-> email])
      [] fn = "createChat" -> createChatRequest(email)
      [] fn = "sendMessage" -> sendMessageRequest(email, cid, "hi", Undefined)
      [] fn = "getChatMessages" -> getChatMessagesRequest(email, cid)
      [] fn = "getChatHistory" -> getChatHistoryRequest(email)
      [] fn = "deleteChatSession" -> deleteChatSessionRequest(email, cid)

\* The promise a wrapper returns, once fetch has settled with resp
ApiResult(fn, resp) ==
    CASE fn = "uploadResume" -> uploadResume(resp)
      [] fn = "confirmOnboarding" -> confirmOnboarding(resp)
      [] fn = "createChat" -> createChat(resp)
      [] fn = "sendMessage" -> sendMessage(resp)
      [] fn = "getChatMessages" -> getChatMessages(resp)
      [] fn = "getChatHistory" -> getChatHistory(resp)
      [] fn = "deleteChatSession" -> deleteChatSession(resp)

ApiResponses ==
    {NetDown, NotJson(TRUE), NotJson(FALSE)}
        \cup {HttpError(b) : b \in ErrorBodies}
        \cup {HttpOk(b) : b \in {[message |-> "done"], [detail |-> "ignored"]}}

\* A wrapper is called: it issues its fetch and awaits it
CallApi(fn, email, cid) ==
    /\ apiCall.phase \in {"idle", "settled"}
    /\ apiCall' = [phase |-> "fetching", fn |-> fn,
                   requests |-> <<ApiRequest(fn, email, cid)>>]
    /\ UNCHANGED <<pageVars, cardVars>>

\* The fetch settles with resp, and the wrapper's promise with it
ApiSettled(resp) ==
    /\ apiCall.phase = "fetching"
    /\ apiCall' = [phase |-> "settled", fn |-> apiCall.fn,
                   requests |-> apiCall.requests,
                   response |-> resp,
                   result |-> ApiResult(apiCall.fn, resp)]
    /\ UNCHANGED <<pageVars, cardVars>>

NextApi ==
    \/ \E fn \in ApiNames, cid \in {"c1", "c2"} : CallApi(fn, "u@x.io", cid)
    \/ \E resp \in ApiResponses : ApiSettled(resp)

SpecApi == Init /\ [][NextApi]_vars

-----------------------------------------------------------------------------
(* JobCard and its JobDetailModal as a state machine *)

\* A click is a pointer click, or the keyboard's activation of a button.
\* The pointer reaches what no overlay covers: the detail modal's backdrop
\* covers the card, a confirmation modal covers everything else.  The
\* keyboard reaches every button that is rendered and not disabled.
\* window.open and the toasts are left out.

CardJobs == {convertJobCardDataToJob(JobCardData(1)), convertJobCardDataToJob(JobCardData(2))}

\* JobDetailModal: if (!isOpen) return null;
DetailModalRendered(isOpen) == isOpen
\* ApplyConfirmationModal: if (!isOpen) return null;
CardConfirmationRendered == showApplyConfirmation
ModalConfirmationRendered ==
    DetailModalRendered(showDetailModal) /\ modalShowApplyConfirmation

CardUncovered ==
    /\ cardProps.mounted
    /\ ~DetailModalRendered(showDetailModal)
    /\ ~CardConfirmationRendered
ModalUncovered ==
    /\ cardProps.mounted
    /\ DetailModalRendered(showDetailModal)
    /\ ~CardConfirmationRendered
    /\ ~ModalConfirmationRendered

\* Variant of CardButtonStopsPropagation: handleSaveToggle lets the click through
CardButtonStopsExceptSave(button) == button # "cardSave"

\* e.stopPropagation() of handleSaveToggle, handleApply, handleChoose
CardButtonStopsPropagation(button) == TRUE
\* onClick={(e) => e.stopPropagation()} of the modal's content
ContentStopsPropagation == TRUE

\* A call of a handler of the props; ok is FALSE when the prop is undefined
\* and the call throws a TypeError
Call(fn, given) == [fn |-> fn, job |-> cardProps.job.id, ok |-> given]

\* The parent renders a card
MountCard(job, saved, applied, unsave) ==
    /\ ~cardProps.mounted
    /\ cardProps' = [mounted |-> TRUE, job |-> job, isSaved |-> saved,
                     isApplied |-> applied, onUnsave |-> unsave]
    /\ UNCHANGED <<showDetailModal, showApplyConfirmation,
                   modalShowApplyConfirmation, lastClick, handlerCalls>>
    /\ UNCHANGED <<pageVars, apiCall>>

\* The parent renders the card again with other isSaved, isApplied
PropsChange(saved, applied) ==
    /\ cardProps.mounted
    /\ cardProps' = [cardProps EXCEPT !.isSaved = saved, !.isApplied = applied]
    /\ UNCHANGED <<showDetailModal, showApplyConfirmation,
                   modalShowApplyConfirmation, lastClick, handlerCalls>>
    /\ UNCHANGED <<pageVars, apiCall>>

cardFrame == <<cardProps, pageVars, apiCall>>

\* handleCardClick
ClickCard ==
    /\ CardUncovered
    /\ lastClick' = "card"
    /\ showDetailModal' = TRUE
    /\ UNCHANGED <<showApplyConfirmation, modalShowApplyConfirmation, handlerCalls>>
    /\ UNCHANGED cardFrame

\* The click goes on to the card's onClick unless the button's handler stopped it
AfterCardButton(button) ==
    /\ lastClick' = button
    /\ showDetailModal' =
          IF CardButtonStopsPropagation(button) THEN showDetailModal ELSE TRUE

\* handleSaveToggle of the card
ClickCardSave ==
    /\ cardProps.mounted
    /\ Len(handlerCalls) < MaxCalls
    /\ handlerCalls' = Append(handlerCalls,
          IF cardProps.isSaved THEN Call("onUnsave", cardProps.onUnsave)
                               ELSE Call("onSave", TRUE))
    /\ AfterCardButton("cardSave")
    /\ UNCHANGED <<showApplyConfirmation, modalShowApplyConfirmation>>
    /\ UNCHANGED cardFrame

\* handleApply; the button is disabled when isApplied
ClickCardApply ==
    /\ cardProps.mounted
    /\ ~cardProps.isApplied
    /\ showApplyConfirmation' = IF cardProps.isApplied THEN showApplyConfirmation ELSE TRUE
    /\ AfterCardButton("cardApply")
    /\ UNCHANGED <<modalShowApplyConfirmation, handlerCalls>>
    /\ UNCHANGED cardFrame

\* handleChoose
ClickCardChoose ==
    /\ cardProps.mounted
    /\ Len(handlerCalls) < MaxCalls
    /\ handlerCalls' = Append(handlerCalls, Call("onChoose", TRUE))
    /\ AfterCardButton("cardChoose")
    /\ UNCHANGED <<showApplyConfirmation, modalShowApplyConfirmation>>
    /\ UNCHANGED cardFrame

\* Variant of AppliedCalls: the application is recorded twice
AppliedCallsTwice(calls) == calls \o <<Call("onApply", TRUE), Call("onApply", TRUE)>>

\* onApply(job) of handleConfirmApply, on the card and in the modal
AppliedCalls(calls) == Append(calls, Call("onApply", TRUE))

\* handleConfirmApply of the card ("Yes, I applied!")
ClickCardConfirm ==
    /\ cardProps.mounted
    /\ CardConfirmationRendered
    /\ Len(handlerCalls) < MaxCalls
    /\ lastClick' = "cardConfirm"
    /\ handlerCalls' = AppliedCalls(handlerCalls)
    /\ showApplyConfirmation' = FALSE
    /\ UNCHANGED <<showDetailModal, modalShowApplyConfirmation>>
    /\ UNCHANGED cardFrame

\* handleCancelApply of the card ("No, I didn't apply")
ClickCardCancel ==
    /\ cardProps.mounted
    /\ CardConfirmationRendered
    /\ lastClick' = "cardCancel"
    /\ showApplyConfirmation' = FALSE
    /\ UNCHANGED <<showDetailModal, modalShowApplyConfirmation, handlerCalls>>
    /\ UNCHANGED cardFrame

\* onClick={onClose} of the modal's backdrop
ClickBackdrop ==
    /\ ModalUncovered
    /\ lastClick' = "backdrop"
    /\ showDetailModal' = FALSE
    /\ UNCHANGED <<showApplyConfirmation, modalShowApplyConfirmation, handlerCalls>>
    /\ UNCHANGED cardFrame

\* The click goes on from the modal's content to the backdrop's onClose
\* unless the content stopped it
AfterModalContent(target) ==
    /\ lastClick' = target
    /\ showDetailModal' = IF ContentStopsPropagation THEN showDetailModal ELSE FALSE

\* A click on the modal's content, off its buttons
ClickModalContent ==
    /\ ModalUncovered
    /\ AfterModalContent("modalContent")
    /\ UNCHANGED <<showApplyConfirmation, modalShowApplyConfirmation, handlerCalls>>
    /\ UNCHANGED cardFrame

\* onClick={onClose} of the modal's X button
ClickModalX ==
    /\ cardProps.mounted
    /\ DetailModalRendered(showDetailModal)
    /\ lastClick' = "modalX"
    /\ showDetailModal' = FALSE
    /\ UNCHANGED <<showApplyConfirmation, modalShowApplyConfirmation, handlerCalls>>
    /\ UNCHANGED cardFrame

\* handleSaveToggle of the modal
ClickModalSave ==
    /\ cardProps.mounted
    /\ DetailModalRendered(showDetailModal)
    /\ Len(handlerCalls) < MaxCalls
    /\ handlerCalls' = Append(handlerCalls,
          IF cardProps.isSaved THEN Call("onUnsave", cardProps.onUnsave)
                               ELSE Call("onSave", TRUE))
    /\ AfterModalContent("modalSave")
    /\ UNCHANGED <<showApplyConfirmation, modalShowApplyConfirmation>>
    /\ UNCHANGED cardFrame

\* handleApplyClick of the modal; the button is disabled when isApplied
ClickModalApply ==
    /\ cardProps.mounted
    /\ DetailModalRendered(showDetailModal)
    /\ ~cardProps.isApplied
    /\ modalShowApplyConfirmation' =
          IF cardProps.isApplied THEN modalShowApplyConfirmation ELSE TRUE
    /\ AfterModalContent("modalApply")
    /\ UNCHANGED <<showApplyConfirmation, handlerCalls>>
    /\ UNCHANGED cardFrame

\* handleConfirmApply of the modal; its onApply is the card's
\* (j) => { onApply(j); toast.success(...) }
ClickModalConfirm ==
    /\ cardProps.mounted
    /\ ModalConfirmationRendered
    /\ Len(handlerCalls) < MaxCalls
    /\ lastClick' = "modalConfirm"
    /\ handlerCalls' = AppliedCalls(handlerCalls)
    /\ modalShowApplyConfirmation' = FALSE
    /\ UNCHANGED <<showDetailModal, showApplyConfirmation>>
    /\ UNCHANGED cardFrame

\* handleCancelApply of the modal
ClickModalCancel ==
    /\ cardProps.mounted
    /\ ModalConfirmationRendered
    /\ lastClick' = "modalCancel"
    /\ modalShowApplyConfirmation' = FALSE
    /\ UNCHANGED <<showDetailModal, showApplyConfirmation, handlerCalls>>
    /\ UNCHANGED cardFrame

NextCard ==
    \/ \E job \in CardJobs, saved, applied, unsave \in BOOLEAN :
          MountCard(job, saved, applied, unsave)
    \/ \E saved, applied \in BOOLEAN : PropsChange(saved, applied)
    \/ ClickCard
    \/ ClickCardSave
    \/ ClickCardApply
    \/ ClickCardChoose
    \/ ClickCardConfirm
    \/ ClickCardCancel
    \/ ClickBackdrop
    \/ ClickModalContent
    \/ ClickModalX
    \/ ClickModalSave
    \/ ClickModalApply
    \/ ClickModalConfirm
    \/ ClickModalCancel

\* The card alone, under a page that stays as it starts
InitCard == Init /\ userEmail = "u@x.io" /\ chatId = "new"
SpecCard == InitCard /\ [][NextCard]_vars

-----------------------------------------------------------------------------
(* Chat turns: C1 - C5 *)

\* A step that settles a sendMessage call / that accepts a send
SettleStep == Len(pending') < Len(pending)
AcceptStep == Len(pending') > Len(pending)

\* C1: when the sendMessage request of a send fails, the user message that was
\* added optimistically is removed: the chat's messages are again the list of
\* before the send, and updateChat is not called.
C1_RollbackOnFailure ==
    [][ (SettleStep /\ sendResult'.kind = "reject") =>
          \E i \in 1..Len(pending) :
              /\ pending' = RemoveAt(pending, i)
              /\ currentChat'.messages = pending[i].currentChat.messages
              /\ currentChat.messages =
                    Append(currentChat'.messages,
                           [sender |-> "user", content |-> pending[i].messageText])
              /\ currentChat'.id = currentChat.id
              /\ updateChatCalls' = updateChatCalls ]_vars

\* A send failed after an earlier one succeeded, and the chat shows the
\* three messages of the turn that succeeded
C1_Witness ==
    /\ sendResult.kind = "reject"
    /\ pending = <<>>
    /\ SendsIssued = 2
    /\ Len(updateChatCalls) = 1
    /\ currentChat.messages = updateChatCalls[1].messages

\* C2: an accepted send appends the user's message as the last message of the
\* chat in the step that issues the request, the messages before it being
\* kept as they were, and empties the input field.
C2_OptimisticUpdate ==
    [][ AcceptStep =>
          LET call == pending'[Len(pending')]
          IN  /\ currentChat'.messages =
                    Append(currentChat.messages,
                           [sender |-> "user", content |-> call.messageText])
              /\ call.request.body.message = call.messageText
              /\ currentChat'.id = currentChat.id
              /\ currentChat'.title = currentChat.title
              /\ message' = "" ]_vars

\* A typed text is in flight: it is the chat's last message, and the input is empty
C2_Witness ==
    /\ Len(pending) = 1
    /\ pending[1].messageText = LongText
    /\ Len(currentChat.messages) = 4
    /\ currentChat.messages[4] = [sender |-> "user", content |-> LongText]
    /\ SubSeq(currentChat.messages, 1, 3) = pending[1].currentChat.messages
    /\ message = ""

\* C3: when the sendMessage request of a send succeeds, the chat's messages
\* are those of before the send, the user message and one bot message with
\* the response's message, and updateChat is called once, with actualChatId
\* and the chat's new messages and title.
C3_SuccessfulTurn ==
    [][ (SettleStep /\ sendResult'.kind = "resolve") =>
          \E i \in 1..Len(pending) :
              LET call == pending[i]
                  expected == call.currentChat.messages \o
                      << [sender |-> "user", content |-> call.messageText],
                         [sender |-> "bot", content |-> sendResult'.value.message] >>
              IN  /\ pending' = RemoveAt(pending, i)
                  /\ currentChat'.messages = expected
                  /\ SubSeq(expected, 1, Len(expected) - 1) = currentChat.messages
                  /\ updateChatCalls' = Append(updateChatCalls,
                        [chatId |-> actualChatId, messages |-> expected,
                         title |-> currentChat'.title]) ]_vars

\* Two turns succeeded: the chat that began with one message holds five
C3_Witness ==
    /\ sendResult.kind = "resolve"
    /\ pending = <<>>
    /\ Len(updateChatCalls) = 2
    /\ Len(currentChat.messages) = 5
    /\ currentChat.messages[5].sender = "bot"
    /\ currentChat.messages[5].content = sendResult.value.message
    /\ updateChatCalls[2].messages = currentChat.messages

\* C4: at most one sendMessage request is in flight, and while isSending is
\* true no step issues a request or changes the chat's messages other than
\* the request's settling.
C4_SequentialTurns ==
    [][ /\ Len(pending') <= 1
        /\ (isSending /\ ~SettleStep) =>
              /\ fetchLog' = fetchLog
              /\ pending' = pending
              /\ currentChat' = currentChat ]_vars

\* Choose was clicked on a job card while a typed message was in flight: the
\* job is selected, and the only request is the typed one, without a job id
C4_Witness ==
    /\ isSending
    /\ Len(pending) = 1
    /\ pending[1].messageText = "hi"
    /\ "selected_job_id" \notin DOMAIN pending[1].request.body
    /\ selectedJobId # Null
    /\ SendsIssued = 2

\* C5: isSending is true exactly while a sendMessage request is in flight: an
\* accepted send sets it, and the settling of the request, with success or
\* with failure, resets it.
C5_SendingFlag == isSending <=> (pending # <<>>)

\* A send has succeeded and a later one has failed, and isSending is false
C5_Witness ==
    /\ ~isSending
    /\ sendResult.kind = "reject"
    /\ Len(updateChatCalls) = 1
    /\ SendsIssued = 2
    /\ SendsSettled = 2

-----------------------------------------------------------------------------
(* The jobs panel: C6 - C8 *)

\* C6: whenever jobs are displayed (showJobs and displayedJobs non-empty),
\* 1 <= currentPage <= totalPages, with totalPages = ceil(N / 3).
C6_PageInRange ==
    (showJobs /\ Len(displayedJobs) > 0) =>
        /\ totalPages = (Len(displayedJobs) + 2) \div 3
        /\ 1 <= currentPage
        /\ currentPage <= (Len(displayedJobs) + 2) \div 3

\* The second, and last, page of four jobs is shown
C6_Witness ==
    /\ showJobs
    /\ Len(displayedJobs) = 4
    /\ currentPage = 2
    /\ totalPages = 2

\* the pages 1..p of jobs, one after the other
RECURSIVE PagesUpTo(_, _)
PagesUpTo(jobs, p) ==
    IF p = 0 THEN <<>> ELSE PagesUpTo(jobs, p - 1) \o PaginatedJobsOf(jobs, p)

\* C7: page p of 1..totalPages shows the jobs at the positions 3(p-1)+1 ..
\* min(3p, N), in order; a page holds 1 to 3 jobs; the pages, one after the
\* other, are displayedJobs; "Showing X - Y" names the positions shown.
C7_PageContents ==
    LET N == Len(displayedJobs)
    IN  /\ \A p \in 1..totalPages :
              LET shown == PaginatedJobsOf(displayedJobs, p)
                  first == 3 * (p - 1) + 1
                  last == IF 3 * p < N THEN 3 * p ELSE N
              IN  /\ Len(shown) = last - first + 1
                  /\ \A k \in 1..Len(shown) : shown[k] = displayedJobs[first + k - 1]
                  /\ Len(shown) \in 1..3
                  /\ ShowingFrom(p) = first
                  /\ ShowingTo(displayedJobs, p) = last
        /\ PagesUpTo(displayedJobs, totalPages) = displayedJobs
        /\ JobsShown => paginatedJobs = PaginatedJobsOf(displayedJobs, currentPage)

\* The last page of four jobs shows the fourth job alone
C7_Witness ==
    /\ JobsShown
    /\ Len(displayedJobs) = 4
    /\ currentPage = 2
    /\ paginatedJobs = <<displayedJobs[4]>>
    /\ ShowingFrom(currentPage) = 4
    /\ ShowingTo(displayedJobs, currentPage) = 4

\* C8: a successful response with a non-empty jobs list replaces displayedJobs
\* by the conversion of those jobs, as many, in their order, with their ids;
\* the jobs panel is shown and currentPage is 1.
C8_JobsReplaced ==
    [][ (/\ SettleStep
         /\ sendResult'.kind = "resolve"
         /\ "jobs" \in DOMAIN sendResult'.value
         /\ Len(sendResult'.value.jobs) > 0) =>
          LET jobs == sendResult'.value.jobs
          IN  /\ Len(displayedJobs') = Len(jobs)
              /\ \A k \in 1..Len(jobs) :
                    /\ displayedJobs'[k].id = jobs[k].job_id
                    /\ displayedJobs'[k].title = jobs[k].job_title
                    /\ displayedJobs'[k].company = jobs[k].employer_name
                    /\ displayedJobs'[k] = convertJobCardDataToJob(jobs[k])
              /\ showJobs'
              /\ currentPage' = 1 ]_vars

\* A second response with jobs has replaced the four jobs of the first by two
C8_Witness ==
    /\ sendResult.kind = "resolve"
    /\ "jobs" \in DOMAIN sendResult.value
    /\ Len(sendResult.value.jobs) = 2
    /\ Len(updateChatCalls) = 2
    /\ Len(updateChatCalls[1].messages) = 3
    /\ Len(displayedJobs) = 2
    /\ displayedJobs[2].id = "job-2"
    /\ showJobs
    /\ currentPage = 1

-----------------------------------------------------------------------------
(* services/api: C9 *)

\* C9: a call of a wrapper issues exactly one request; on a response that is
\* not ok it rejects, with the body's detail when there is one and with the
\* wrapper's fallback text otherwise; on a response that is ok it resolves
\* with the parsed body.
C9_ApiContract ==
    apiCall.phase = "settled" =>
        LET resp == apiCall.response
            result == apiCall.result
            detail == IF "detail" \in DOMAIN resp.body THEN resp.body.detail ELSE ""
        IN  /\ Len(apiCall.requests) = 1
            /\ (resp.net /\ ~resp.ok) =>
                  /\ result.kind = "reject"
                  /\ result.message =
                        IF detail # "" THEN detail ELSE Fallback(apiCall.fn)
            /\ (resp.net /\ resp.ok /\ resp.json) => result = Resolve(resp.body)

\* What C9 leaves when the error body is JSON
C9_JsonErrorBodies ==
    (apiCall.phase = "settled" /\ apiCall.response.net /\ apiCall.response.json) =>
        C9_ApiContract

-----------------------------------------------------------------------------
(* JobCard: C10 *)

\* A step that is a click on the card or its modals
ClickStep == cardProps.mounted /\ cardProps' = cardProps

ModalElements == {"backdrop", "modalContent", "modalX", "modalSave",
                  "modalApply", "modalConfirm", "modalCancel"}

\* C10: the detail modal is closed at first; only a click on the card's body
\* opens it, the clicks on the card's Save, Choose and Apply buttons do not;
\* a click inside the modal's content leaves it open; a click on the backdrop
\* or on X closes it; while it is closed nothing of JobDetailModal is there
\* to be clicked.
C10_DetailModalLifecycle ==
    /\ ~showDetailModal
    /\ [][ /\ (~showDetailModal /\ showDetailModal') => lastClick' = "card"
           /\ (ClickStep /\ lastClick' \in {"cardSave", "cardChoose", "cardApply"})
                 => showDetailModal' = showDetailModal
           /\ (ClickStep /\ lastClick' \in {"modalContent", "modalSave", "modalApply"})
                 => showDetailModal'
           /\ (ClickStep /\ lastClick' \in {"backdrop", "modalX"})
                 => ~showDetailModal'
           /\ (ClickStep /\ lastClick' \in ModalElements)
                 => DetailModalRendered(showDetailModal) ]_vars

\* The modal is open after a click on its Save button, which called onSave
C10_Witness ==
    /\ showDetailModal
    /\ lastClick = "modalSave"
    /\ Len(handlerCalls) = 2
    /\ handlerCalls[1].fn = "onChoose"
    /\ handlerCalls[2].fn = "onSave"

-----------------------------------------------------------------------------
(* JobCard: C11 - C12 *)

\* The calls of onApply among calls
ApplyCalls(calls) == {i \in 1..Len(calls) : calls[i].fn = "onApply"}

\* C11: on the card and in the detail modal alike, a confirmation modal opens
\* only by a click on Apply on a job that is not applied; onApply(job) is
\* called only by a click on "Yes, I applied!" in an open confirmation modal,
\* once for each such click; a click on "No, I didn't apply" calls nothing;
\* after either click that confirmation modal is closed.
C11_ApplyProtocol ==
    /\ ~showApplyConfirmation /\ ~modalShowApplyConfirmation
    /\ ApplyCalls(handlerCalls) = {}
    /\ [][ LET onApplyJob == [fn |-> "onApply", job |-> cardProps.job.id, ok |-> TRUE]
           IN  /\ (~showApplyConfirmation /\ showApplyConfirmation') =>
                     ClickStep /\ lastClick' = "cardApply" /\ ~cardProps.isApplied
               /\ (~modalShowApplyConfirmation /\ modalShowApplyConfirmation') =>
                     ClickStep /\ lastClick' = "modalApply" /\ ~cardProps.isApplied
               /\ (ApplyCalls(handlerCalls') # ApplyCalls(handlerCalls)) =>
                     /\ ClickStep
                     /\ \/ lastClick' = "cardConfirm" /\ showApplyConfirmation
                        \/ lastClick' = "modalConfirm" /\ modalShowApplyConfirmation
               /\ (ClickStep /\ lastClick' \in {"cardConfirm", "modalConfirm"}) =>
                     handlerCalls' = Append(handlerCalls, onApplyJob)
               /\ (ClickStep /\ lastClick' \in {"cardCancel", "modalCancel"}) =>
                     handlerCalls' = handlerCalls
               /\ (ClickStep /\ lastClick' \in {"cardConfirm", "cardCancel"}) =>
                     showApplyConfirmation /\ ~showApplyConfirmation'
               /\ (ClickStep /\ lastClick' \in {"modalConfirm", "modalCancel"}) =>
                     modalShowApplyConfirmation /\ ~modalShowApplyConfirmation' ]_vars

\* An application was confirmed on the card and another in the detail modal:
\* onApply was called twice, and both confirmation modals are closed
C11_Witness ==
    /\ lastClick = "modalConfirm"
    /\ showDetailModal
    /\ ~showApplyConfirmation /\ ~modalShowApplyConfirmation
    /\ Len(handlerCalls) = 2
    /\ ApplyCalls(handlerCalls) = {1, 2}
    /\ handlerCalls[2].job = cardProps.job.id

\* The card as ChatPage renders it: onSave, onApply and onChoose are passed,
\* onUnsave is not
ChatPagePassesOnUnsave == FALSE

\* C12: a click on the save toggle, on the card or in the detail modal, calls
\* exactly one handler with the job, onUnsave when the job is saved and
\* onSave otherwise, and the call goes through; so it does on the cards that
\* ChatPage renders.
C12_SaveToggle ==
    [][ (ClickStep /\ lastClick' \in {"cardSave", "modalSave"}) =>
          handlerCalls' = Append(handlerCalls,
              [fn |-> IF cardProps.isSaved THEN "onUnsave" ELSE "onSave",
               job |-> cardProps.job.id,
               ok |-> TRUE]) ]_vars

\* What C12 leaves of the cards whose parent passes onUnsave
C12_WithOnUnsave ==
    [][ (ClickStep /\ lastClick' \in {"cardSave", "modalSave"}
           /\ cardProps.onUnsave # ChatPagePassesOnUnsave) =>
          handlerCalls' = Append(handlerCalls,
              [fn |-> IF cardProps.isSaved THEN "onUnsave" ELSE "onSave",
               job |-> cardProps.job.id,
               ok |-> TRUE]) ]_vars

\* What C12 leaves of the cards of ChatPage: the toggle of a job that is not
\* saved calls onSave(job), that of a saved job calls what is not a function
C12_OnChatPage ==
    [][ (ClickStep /\ lastClick' \in {"cardSave", "modalSave"}
           /\ cardProps.onUnsave = ChatPagePassesOnUnsave) =>
          handlerCalls' = Append(handlerCalls,
              [fn |-> IF cardProps.isSaved THEN "onUnsave" ELSE "onSave",
               job |-> cardProps.job.id,
               ok |-> ~cardProps.isSaved]) ]_vars

-----------------------------------------------------------------------------
(* The selected job: C13 - C14 *)

\* A step in which the Choose button of the k-th card of the page was
\* clicked and handleSendMessage accepted the message about its job
ChooseStep(k) ==
    /\ AcceptStep
    /\ JobsShown
    /\ k \in 1..Len(paginatedJobs)
    /\ pending'[Len(pending')].messageText = ChooseMessage(paginatedJobs[k])

\* C13: when handleChooseJob(job) runs with a current chat and no send in
\* flight, the job is selected and the sendMessage request it triggers
\* carries selected_job_id = job.id.
C13_ChosenJobSent ==
    [][ \A k \in 1..jobsPerPage :
          ChooseStep(k) =>
            LET body == pending'[Len(pending')].request.body
            IN  /\ selectedJobId' = paginatedJobs[k].id
                /\ "selected_job_id" \in DOMAIN body
                /\ body.selected_job_id = paginatedJobs[k].id ]_vars

\* What the request of handleChooseJob(job) does carry: the job that was
\* selected before the click, if there was one
C13_StaleSelection ==
    [][ \A k \in 1..jobsPerPage :
          ChooseStep(k) =>
            LET body == pending'[Len(pending')].request.body
            IN  /\ selectedJobId' = paginatedJobs[k].id
                /\ IF selectedJobId \in {Null, ""}
                   THEN "selected_job_id" \notin DOMAIN body
                   ELSE /\ "selected_job_id" \in DOMAIN body
                        /\ body.selected_job_id = selectedJobId ]_vars

\* C14: a send that succeeds leaves selectedJobId null; a send that fails
\* leaves selectedJobId as it was; and the request of every accepted send
\* carries the job that is selected when the send is made, none when none is.
C14_SelectionAfterSend ==
    [][ /\ (SettleStep /\ sendResult'.kind = "resolve") => selectedJobId' = Null
        /\ (SettleStep /\ sendResult'.kind = "reject") => selectedJobId' = selectedJobId
        /\ AcceptStep =>
              LET body == pending'[Len(pending')].request.body
              IN  IF selectedJobId = Null
                  THEN "selected_job_id" \notin DOMAIN body
                  ELSE /\ "selected_job_id" \in DOMAIN body
                       /\ body.selected_job_id = selectedJobId ]_vars

\* The send that Choose made for the first job has failed after an earlier
\* send had succeeded: the job is still selected, and the next request would
\* carry it
C14_Witness ==
    /\ sendResult.kind = "reject"
    /\ pending = <<>>
    /\ ~isSending
    /\ Len(updateChatCalls) = 1
    /\ SendsIssued = 2
    /\ JobsShown
    /\ selectedJobId = displayedJobs[1].id
    /\ sendMessageRequest(userEmail, actualChatId, "hi",
                          JobIdArg(selectedJobId)).body.selected_job_id = "job-1"

-----------------------------------------------------------------------------
(* The chat's title and the frame of a turn: C15 - C17 *)

\* The call that a settling step settles
SettledCall == pending[CHOOSE i \in 1..Len(pending) : pending' = RemoveAt(pending, i)]

\* C15: a send that succeeds on a chat that held exactly one message before
\* the send sets the chat's title to the message text when that has at most
\* 50 characters, and else to its first 50 characters followed by "...", at
\* most 53 characters in all; a send that succeeds on a chat that held any
\* other number of messages, and a send that fails, leave the title as it was.
C15_TitleRule ==
    [][ SettleStep =>
          LET text == SettledCall.messageText
              held == Len(currentChat.messages) - 1
              named == sendResult'.kind = "resolve" /\ held = 1
          IN  /\ named =>
                    /\ currentChat'.title =
                          IF Len(text) <= 50 THEN text
                          ELSE SubSeq(text, 1, 50) \o "..."
                    /\ Len(currentChat'.title) <= 53
                    /\ updateChatCalls'[Len(updateChatCalls')].title = currentChat'.title
              /\ ~named => currentChat'.title = currentChat.title
              /\ (currentChat'.title # currentChat.title) => named ]_vars

\* The first message of a chat had 58 characters: the title is its first 50
\* characters and "...", and the second send has kept that title
C15_Witness ==
    /\ Len(LongText) = 58
    /\ currentChat.title = SubSeq(LongText, 1, 50) \o "..."
    /\ Len(currentChat.title) = 53
    /\ currentChat.messages[2] = [sender |-> "user", content |-> LongText]
    /\ sendResult.kind = "resolve"
    /\ Len(updateChatCalls) = 2
    /\ updateChatCalls[1].title = currentChat.title
    /\ updateChatCalls[2].title = currentChat.title

\* C16: a send that succeeds with a response whose jobs are absent or empty,
\* and a send that fails, leave displayedJobs, showJobs and currentPage as
\* they were.
C16_JobsPanelKept ==
    [][ (/\ SettleStep
         /\ \/ sendResult'.kind = "reject"
            \/ /\ sendResult'.kind = "resolve"
               /\ \/ "jobs" \notin DOMAIN sendResult'.value
                  \/ sendResult'.value.jobs = <<>>) =>
          /\ displayedJobs' = displayedJobs
          /\ showJobs' = showJobs
          /\ currentPage' = currentPage ]_vars

\* The second page of four jobs is on screen after a response with an empty
\* jobs list
C16_Witness ==
    /\ sendResult.kind = "resolve"
    /\ "jobs" \in DOMAIN sendResult.value
    /\ sendResult.value.jobs = <<>>
    /\ Len(updateChatCalls) = 2
    /\ showJobs
    /\ Len(displayedJobs) = 4
    /\ currentPage = 2

\* The text is empty or whitespace, or there is no current chat, or
\* actualChatId is not set
NothingToSend(messageText) ==
    \/ IsBlank(messageText)
    \/ currentChat = NullChat
    \/ actualChatId \in {Null, ""}

\* What a call of handleSendMessage that does nothing leaves alone
sendEffects == <<fetchLog, pending, currentChat, message, isSending>>

\* C17: a call of handleSendMessage, by Enter, the send button or a suggested
\* message, whose text is empty or only whitespace, or that finds no current
\* chat or no actualChatId, issues no request, adds no message, keeps the
\* input text and leaves isSending false; so a request is issued, a user
\* message added or isSending set only by a call with a text that is not
\* blank, a current chat and an actualChatId.
C17_NothingToSend ==
    [][ /\ ((PressEnter \/ ClickSend) /\ NothingToSend(message)) =>
              UNCHANGED sendEffects /\ ~isSending'
        /\ \A i \in 1..Len(SUGGESTED_MESSAGES) :
              (ClickSuggested(i) /\ NothingToSend(SUGGESTED_MESSAGES[i])) =>
                  UNCHANGED sendEffects /\ ~isSending'
        /\ (\/ SendsIssued' # SendsIssued
            \/ isSending' /\ ~isSending
            \/ /\ Len(currentChat'.messages) = Len(currentChat.messages) + 1
               /\ currentChat'.messages[Len(currentChat'.messages)].sender = "user")
                 => AcceptStep
        /\ AcceptStep =>
              /\ ~NothingToSend(pending'[Len(pending')].messageText)
              /\ pending'[Len(pending')].request.body.chat_id = actualChatId ]_vars

\* createChat has failed and the user has typed a text: there is no current
\* chat, and Enter and the send button call handleSendMessage, which returns
\* at once
C17_Witness ==
    /\ Interactive
    /\ currentChat = NullChat
    /\ actualChatId = Null
    /\ message = "hi"
    /\ ENABLED (PressEnter /\ UNCHANGED vars)
    /\ ENABLED (ClickSend /\ UNCHANGED vars)
    /\ ~ENABLED (PressEnter /\ ~UNCHANGED sendEffects)
    /\ ~ENABLED (ClickSend /\ ~UNCHANGED sendEffects)

-----------------------------------------------------------------------------
(* The chat's initialization: C18 - C19 *)

\* C18: with an empty userEmail the page navigates to "/" and does nothing
\* else: it issues no request, neither createChat nor getChatMessages, adds
\* no chat, has no current chat, and isLoading is never true.
C18_NoEmail ==
    userEmail = "" =>
        /\ fetchLog = <<>>
        /\ addChatCalls = <<>>
        /\ chats = <<CachedChat>>
        /\ currentChat = NullChat
        /\ actualChatId = Null
        /\ ~isLoading
        /\ location \in {ChatRoute(chatId), "/"}
        /\ (initRun.pc # "effect") => (initRun.pc = "idle" /\ location = "/")

\* The page of a cached chat was opened without an email, and has navigated
\* to "/"
C18_Witness ==
    /\ userEmail = ""
    /\ chatId = "c1"
    /\ initRun.pc = "idle"
    /\ location = "/"
    /\ fetchLog = <<>>

\* C19: when the chat of the route is in chats and getChatMessages succeeds,
\* the current chat is that chat with the server's messages, in the server's
\* order, and the server's chat_name as title; when getChatMessages fails,
\* the current chat stays the cached chat with its messages, the page stays
\* on its route, and a message can be sent.
C19_ExistingChat ==
    [][ \A resp \in GetChatMessagesResponses :
          ExistingChatLoaded(resp) =>
            LET cached == CHOOSE c \in FindChat(chats, chatId) : TRUE
            IN  /\ FindChat(chats, chatId) # Undefined
                /\ currentChat = cached
                /\ currentChat'.id = chatId
                /\ IF resp.net /\ resp.ok
                   THEN /\ Len(currentChat'.messages) = Len(resp.body.messages)
                        /\ \A i \in 1..Len(resp.body.messages) :
                              /\ currentChat'.messages[i].sender = resp.body.messages[i].sender
                              /\ currentChat'.messages[i].content = resp.body.messages[i].message
                        /\ currentChat'.title = resp.body.chat_name
                   ELSE /\ currentChat' = cached
                        /\ currentChat'.messages = cached.messages
                /\ location' = ChatRoute(chatId)
                /\ actualChatId' = chatId
                /\ initRun'.pc = "idle" /\ ~isLoading'
                /\ \A text \in Texts \ {"", "  "} :
                      ~ReturnsEarly(text, currentChat', actualChatId', isSending') ]_vars

\* getChatMessages has failed for the cached chat c1, and a message typed
\* after that is on its way, sent on the cached chat
C19_Witness ==
    /\ chatId = "c1"
    /\ location = ChatRoute("c1")
    /\ fetchLog = <<"/api/getChatMessages", "/api/sendMessage">>
    /\ Len(pending) = 1
    /\ pending[1].currentChat = CachedChat
    /\ pending[1].request.body.chat_id = "c1"
    /\ currentChat.title = CachedChat.title
    /\ currentChat.messages = Append(CachedChat.messages, [sender |-> "user", content |-> "hi"])

\* getChatMessages has succeeded for the cached chat c1: the page shows the
\* three messages and the title of the server
C19_Loaded ==
    /\ chatId = "c1"
    /\ initRun.pc = "idle"
    /\ fetchLog = <<"/api/getChatMessages">>
    /\ currentChat.id = "c1"
    /\ currentChat.title = "Server title"
    /\ Len(currentChat.messages) = 3
    /\ currentChat.messages[2] = [sender |-> "user", content |-> "hi"]

=============================================================================
